---- MODULE Spec2Model ----
(***************************************************************************)
(* State-machine model of dashboard.py, a Streamlit script.  One run of    *)
(* the script (a "render") is a sequence of steps: the sidebar and upload  *)
(* test, the initial data load, the visualization branch and the layout.   *)
(* The only state that survives a render is the st.cache_data cache of     *)
(* fetch_data.  Strings are sequences of decimal digits.                   *)
(***************************************************************************)
EXTENDS Integers, Sequences, FiniteSets, TLC

VARIABLES
    clock,          \* wall-clock seconds, read by the cache
    ver,            \* revision of the data held by the remote service
    cache,          \* st.cache_data store of fetch_data: key -> entry
    fetched,        \* history: key -> last result obtained over the network
    renders,        \* number of script runs started
    cold,           \* history: the cache was empty when the current run started
    pc,             \* position of the current run
    date, hour, viz_type, uploaded_file,    \* sidebar inputs of the run
    gdf,            \* filtered boundary features
    df,             \* data frame of the selected hour
    m,              \* the folium map under construction
    all_heat,       \* layers collected by the time-heatmap loop
    h,              \* loop variable of the time-heatmap loop
    out,            \* what the page shows
    log             \* history: the fetch_data calls made by the current run

vars == <<clock, ver, cache, fetched, renders, cold, pc, date, hour, viz_type,
          uploaded_file, gdf, df, m, all_heat, h, out, log>>

----------------------------------------------------------------------------
(* Bounds of the exploration *)

MaxRenders == 2
MaxClock == 6000
MaxWeight == 600

(* Program constants *)

TTL == 3600
NumHours == 24
PrefixLen == 7
RadiusDivisor == 50
MinRadius == 3

(* Between runs the clock moves in steps of which one stays inside the cache *)
(* window and two leave it; a request is answered at once or hangs for longer *)
(* than the window.                                                           *)
TickStep == (TTL \div 2) + 200
HangTime == TTL + 400

----------------------------------------------------------------------------
(* Strings *)

RECURSIVE IntToStr(_)
IntToStr(n) == IF n < 10 THEN <<n>> ELSE Append(IntToStr(n \div 10), n % 10)

RECURSIVE StrToInt(_)
StrToInt(s) ==
    IF s = <<>> THEN 0
    ELSE 10 * StrToInt(SubSeq(s, 1, Len(s) - 1)) + s[Len(s)]

RECURSIVE ZeroPad(_, _)
ZeroPad(s, width) == IF Len(s) >= width THEN s ELSE ZeroPad(<<0>> \o s, width)

(* f"{hour:02d}" *)
Fmt02d(n) == ZeroPad(IntToStr(n), 2)

(* date.strftime("%Y%m%d") *)
Strftime(d) == ZeroPad(IntToStr(d.y), 4) \o ZeroPad(IntToStr(d.m), 2)
                   \o ZeroPad(IntToStr(d.d), 2)

(* s[:7] *)
Prefix(s) == SubSeq(s, 1, IF Len(s) < PrefixLen THEN Len(s) ELSE PrefixLen)

VALID_PREFIXES == { <<1,1,0,4,0,6,5>>, <<1,1,0,4,0,6,6>>,
                    <<1,1,0,4,0,6,7>>, <<1,1,0,4,0,6,8>> }

(* dict.get(key, default) *)
Get(obj, key, default) == IF key \in DOMAIN obj THEN obj[key] ELSE default

----------------------------------------------------------------------------
(* Sidebar inputs *)

Dates == { [y |-> 2025, m |-> 9, d |-> 5] }
SliderHours == {0, 14, 23}
VizTypes == {"points", "heatmap", "time_heatmap"}

Hours == 0 .. (NumHours - 1)
Keys == { <<Strftime(d), Fmt02d(hh)>> : d \in Dates, hh \in Hours }

(* Census tracts: T1, T2 in the district, TX outside it *)
T1 == <<1,1,0,4,0,6,5,0,1,0,0,0,1>>
T2 == <<1,1,0,4,0,6,6,0,2,0,0,0,2>>
TX == <<1,1,0,4,0,6,9,0,1,0,0,0,1>>

(* A boundary feature: OA_CD and a rectangular polygon *)
Feature(oa, minx, miny, maxx, maxy) ==
    [OA_CD |-> oa,
     geometry |-> [minx |-> minx, miny |-> miny, maxx |-> maxx, maxy |-> maxy]]

NoFile == [present |-> FALSE, features |-> <<>>]
FileA == [present |-> TRUE, features |-> << Feature(T1, 10, 50, 30, 70) >>]
FileB == [present |-> TRUE,
          features |-> << Feature(TX, 80, 90, 84, 96),
                          Feature(T1, 10, 50, 30, 70),
                          Feature(T2, 40, 52, 44, 60),
                          Feature(T1, 12, 54, 16, 58) >>]
UploadedFiles == {NoFile, FileA, FileB}

(* geometry.centroid of a rectangle *)
Centroid(g) == [x |-> (g.minx + g.maxx) \div 2, y |-> (g.miny + g.maxy) \div 2]

----------------------------------------------------------------------------
(* The remote service: the body it holds for a (date, hour) at revision v *)

Row(date_str, hour_str, oa, w) ==
    [STDR_DE_ID |-> date_str, TMZON_PD_SE |-> hour_str,
     ADSTRD_CODE_SE |-> SubSeq(oa, 1, 8), OA_CD |-> oa,
     TOT_LVPOP_CO |-> IntToStr(w),
     CHINA_STAYPOP_CO |-> IntToStr(w \div 2),
     OTHER_STAYPOP_CO |-> IntToStr(w - (w \div 2))]

Envelope(rows) == [TEMP_FOREIGNER |-> [list_total_count |-> Len(rows), row |-> rows]]

Remote(date_str, hour_str, v) ==
    LET hh == StrToInt(hour_str)
        w == 25 * hh + 7 * v
        R(oa, k) == Row(date_str, hour_str, oa, w + k)
    IN  IF v % 2 = 1 /\ hh = 0 THEN [RESULT |-> [CODE |-> "INFO-200"]]
        ELSE IF v % 2 = 1 /\ hh = 14 THEN [TEMP_FOREIGNER |-> [list_total_count |-> 0]]
        ELSE IF v % 2 = 1 /\ hh = 23 THEN Envelope(<<>>)
        ELSE IF (hh + 1) % 3 = 0 THEN Envelope(<< R(T1, 0) >>)
        ELSE IF (hh + 1) % 3 = 1 THEN Envelope(<< R(T2, 0), R(TX, 1), R(T1, 2) >>)
        ELSE Envelope(<< R(TX, 0) >>)

Statuses == {200, 503}
Durations == {0, HangTime}

----------------------------------------------------------------------------
(* pandas *)

EmptyFrame == [columns |-> {}, rows |-> <<>>]

(* pd.DataFrame(items) *)
DataFrame(items) ==
    [columns |-> UNION { DOMAIN items[i] : i \in DOMAIN items }, rows |-> items]

(* frame[frame["OA_CD"].str[:7].isin(VALID_PREFIXES)] *)
IsValid(r) == Prefix(r.OA_CD) \in VALID_PREFIXES
FilterPrefix(frame) ==
    [columns |-> frame.columns, rows |-> SelectSeq(frame.rows, IsValid)]

----------------------------------------------------------------------------
(* fetch_data and its cache *)

NoException == "none"
Raise(e) == [exc |-> e, value |-> EmptyFrame]
Return(v) == [exc |-> NoException, value |-> v]

(* Only client errors raise *)
RaisesForStatus_ClientOnly(status) == status >= 400 /\ status < 500

(* resp.raise_for_status() *)
RaisesForStatus(status) == status >= 400 /\ status < 600

(* The body of fetch_data, given the response of requests.get *)
fetch_body(status, body) ==
    IF RaisesForStatus(status) THEN Raise("HTTPError")
    ELSE LET items == Get(Get(body, "TEMP_FOREIGNER", <<>>), "row", <<>>)
             frame == DataFrame(items)
         IN  IF "OA_CD" \notin frame.columns THEN Raise("KeyError")
             ELSE Return(FilterPrefix(frame))

(* History: which of the shapes of the envelope a response body has *)
BodyClass(body) ==
    IF "TEMP_FOREIGNER" \notin DOMAIN body THEN "no_envelope"
    ELSE IF "row" \notin DOMAIN body.TEMP_FOREIGNER THEN "no_row"
    ELSE IF body.TEMP_FOREIGNER.row = <<>> THEN "empty_row"
    ELSE "rows"

EmptyCache == [k \in Keys |-> <<>>]

(* A window of half the length *)
Expired_Early(e, now) == now >= e.ts + (TTL \div 2)

(* An entry is dropped once the clock reaches its store time plus ttl *)
Expired(e, now) == now >= e.ts + TTL

CacheKey(date_str, hour_str) == <<date_str, hour_str>>

(* A cache that is never read *)
CacheHit_Never(c, key, now) == FALSE

CacheHit(c, key, now) == c[key] # <<>> /\ ~Expired(c[key][1], now)

CacheStore(c, key, value, now) == [c EXCEPT ![key] = << [value |-> value, ts |-> now] >>]

(* One call fetch_data(date_str, hour_str) at time now, when the request (if   *)
(* one is made) is answered with status after dur seconds.                     *)
fetch_data(c, now, date_str, hour_str, status, dur) ==
    LET key == CacheKey(date_str, hour_str) IN
    IF CacheHit(c, key, now)
    THEN [res |-> Return(c[key][1].value), cache |-> c, clock |-> now,
          nreq |-> 0, status |-> 0, body |-> "none"]
    ELSE LET body == Remote(date_str, hour_str, ver)
             r == fetch_body(status, body)
         IN  [res |-> r, body |-> BodyClass(body),
              cache |-> IF r.exc = NoException
                        THEN CacheStore(c, key, r.value, now + dur) ELSE c,
              clock |-> now + dur, nreq |-> 1, status |-> status]

----------------------------------------------------------------------------
(* Tract join and the overlays *)

(* gdf[gdf["OA_CD"] == row["OA_CD"]] *)
Tract(g, row) == LET Same(f) == f.OA_CD = row.OA_CD IN SelectSeq(g, Same)

(* .geometry.centroid.iloc[0] raises IndexError on an empty selection *)
HasTract(g, row) == Tract(g, row) # <<>>

Unjoinable(g, frame) == \E i \in DOMAIN frame.rows : ~HasTract(g, frame.rows[i])

(* [centroid.y, centroid.x, int(row["TOT_LVPOP_CO"])] *)
JoinedPoint(g, row) ==
    LET centroid == Centroid(Tract(g, row)[1].geometry)
    IN  <<centroid.y, centroid.x, StrToInt(row.TOT_LVPOP_CO)>>

(* The list comprehension of the heatmap and time-heatmap branches *)
heat_data(g, frame) ==
    IF Unjoinable(g, frame) THEN [exc |-> "IndexError", value |-> <<>>]
    ELSE [exc |-> NoException,
          value |-> [i \in DOMAIN frame.rows |-> JoinedPoint(g, frame.rows[i])]]

(* Rationals, for the float w / 50 *)
Rat(n, d) == [num |-> n, den |-> d]
RatLess(a, b) == a.num * b.den < b.num * a.den
RatEq(a, b) == a.num * b.den = b.num * a.den

(* A radius without its floor *)
Radius_NoFloor(w) == Rat(w, RadiusDivisor)

(* max(int(w) / 50, 3): the second argument wins only when it is greater *)
Radius(w) ==
    LET a == Rat(w, RadiusDivisor)
        b == Rat(MinRadius, 1)
    IN  IF RatLess(a, b) THEN b ELSE a

CircleMarker(g, row) ==
    LET centroid == Centroid(Tract(g, row)[1].geometry)
    IN  [location |-> <<centroid.y, centroid.x>>,
         radius |-> Radius(StrToInt(row.TOT_LVPOP_CO)),
         popup |-> [OA_CD |-> row.OA_CD, TOT_LVPOP_CO |-> row.TOT_LVPOP_CO]]

(* Rows before the first row without a boundary feature *)
RECURSIVE Joinable(_, _)
Joinable(g, rows) ==
    IF rows = <<>> \/ ~HasTract(g, rows[1]) THEN <<>>
    ELSE <<rows[1]>> \o Joinable(g, Tail(rows))

(* The for loop of the points branch: markers are added until a row fails *)
Markers(g, frame) ==
    LET rows == Joinable(g, frame.rows)
    IN  [exc |-> IF Unjoinable(g, frame) THEN "IndexError" ELSE NoException,
         value |-> [i \in DOMAIN rows |-> CircleMarker(g, rows[i])]]

(* folium.Map with the boundary outline of gdf.to_json() *)
BaseMap(g) ==
    [boundary |-> [i \in DOMAIN g |-> g[i].OA_CD],
     markers |-> <<>>, heat |-> <<>>, time |-> <<>>]

(* Labels counted from one *)
HeatMapWithTime_OneBased(layers) ==
    [data |-> layers, index |-> [i \in 1 .. NumHours |-> Fmt02d(i)],
     auto_play |-> FALSE]

(* HeatMapWithTime(all_heat, index=[f"{h:02d}" ...], auto_play=False) *)
HeatMapWithTime(layers) ==
    [data |-> layers, index |-> [i \in 1 .. NumHours |-> Fmt02d(i - 1)],
     auto_play |-> FALSE]

TableColumns == {"STDR_DE_ID", "TMZON_PD_SE", "ADSTRD_CODE_SE", "OA_CD",
                 "TOT_LVPOP_CO", "CHINA_STAYPOP_CO", "OTHER_STAYPOP_CO"}

(* df[[...]] *)
Project(frame) ==
    [i \in DOMAIN frame.rows |-> [c \in TableColumns |-> frame.rows[i][c]]]

----------------------------------------------------------------------------
(* The page *)

Blank == [warning |-> FALSE, exc |-> NoException, map |-> <<>>,
          count |-> <<>>, table |-> <<>>]

(* st.warning(...) ; st.stop() *)
Warned == [Blank EXCEPT !.warning = TRUE]

(* An uncaught exception ends the run and is shown in place of the page *)
Failed(e) == [Blank EXCEPT !.exc = e]

(* Section 9: st_folium(m), the record count and the table *)
Layout(map, frame) ==
    IF TableColumns \subseteq frame.columns
    THEN [Blank EXCEPT !.map = <<map>>, !.count = <<Len(frame.rows)>>,
                       !.table = <<Project(frame)>>]
    ELSE [Blank EXCEPT !.map = <<map>>, !.count = <<Len(frame.rows)>>,
                       !.exc = "KeyError"]

----------------------------------------------------------------------------
(* Steps *)

Resting == pc \in {"idle", "done", "error", "stopped"}

(* A session is explored up to MaxRenders runs, and no further than a run of *)
(* the time-heatmap view.                                                     *)
MayRerun ==
    /\ Resting
    /\ renders < MaxRenders
    /\ ~(renders > 0 /\ uploaded_file.present /\ viz_type = "time_heatmap")

Init ==
    /\ clock = 0
    /\ ver = 0
    /\ cache = EmptyCache
    /\ fetched = EmptyCache
    /\ renders = 0
    /\ cold = TRUE
    /\ pc = "idle"
    /\ date = [y |-> 2025, m |-> 9, d |-> 5]
    /\ hour = 14
    /\ viz_type = "points"
    /\ uploaded_file = NoFile
    /\ gdf = <<>>
    /\ df = EmptyFrame
    /\ m = BaseMap(<<>>)
    /\ all_heat = <<>>
    /\ h = 0
    /\ out = Blank
    /\ log = <<>>

date_str == Strftime(date)
hour_str == Fmt02d(hour)

(* The record of one fetch_data call *)
CallRecord(ds, hs, now, c) ==
    [key |-> CacheKey(ds, hs), at |-> now, done |-> c.clock, nreq |-> c.nreq,
     status |-> c.status, body |-> c.body, exc |-> c.res.exc, ret |-> c.res.value]

(* What the last network fetch of a key returned *)
Fetched(f, ds, hs, c) ==
    IF c.nreq > 0 /\ c.res.exc = NoException
    THEN [f EXCEPT ![CacheKey(ds, hs)] = << [value |-> c.res.value, ts |-> c.clock] >>]
    ELSE f

(* Sections 3 and 4: the inputs, the upload test, the boundary filter *)
IsValidFeature(f) == Prefix(f.OA_CD) \in VALID_PREFIXES
(* A boundary set left unfiltered *)
LoadBoundary_Unfiltered(file) == file.features

LoadBoundary(file) == SelectSeq(file.features, IsValidFeature)

(* A run that goes on without a file *)
StopWithoutFile_Never(file) == FALSE

StopWithoutFile(file) == ~file.present

Rerun(d, hr, vt, file) ==
    /\ MayRerun
    /\ renders' = renders + 1
    /\ cold' = (cache = EmptyCache)
    /\ date' = d /\ hour' = hr /\ viz_type' = vt /\ uploaded_file' = file
    /\ df' = EmptyFrame /\ all_heat' = <<>> /\ h' = 0 /\ log' = <<>>
    /\ m' = BaseMap(<<>>)
    /\ IF StopWithoutFile(file)
       THEN gdf' = <<>> /\ out' = Warned /\ pc' = "stopped"
       ELSE gdf' = LoadBoundary(file) /\ out' = Blank /\ pc' = "load"
    /\ UNCHANGED <<clock, ver, cache, fetched>>

(* Sections 6 and 7: the data of the selected hour, then the base map *)
LoadData(status, dur) ==
    /\ pc = "load"
    /\ clock + dur <= MaxClock
    /\ LET c == fetch_data(cache, clock, date_str, hour_str, status, dur) IN
        /\ cache' = c.cache
        /\ clock' = c.clock
        /\ fetched' = Fetched(fetched, date_str, hour_str, c)
        /\ log' = Append(log, CallRecord(date_str, hour_str, clock, c))
        /\ IF c.res.exc # NoException
           THEN /\ out' = Failed(c.res.exc) /\ pc' = "error"
                /\ UNCHANGED <<df, m>>
           ELSE /\ df' = c.res.value
                /\ m' = BaseMap(gdf)
                /\ out' = out
                /\ pc' = IF viz_type \in {"points", "heatmap"} THEN "viz" ELSE "loop"
    /\ UNCHANGED <<ver, renders, cold, date, hour, viz_type, uploaded_file, gdf, all_heat, h>>

(* Section 8, points branch, then section 9 *)
VizPoints ==
    /\ pc = "viz" /\ viz_type = "points"
    /\ LET r == Markers(gdf, df) IN
        /\ m' = [m EXCEPT !.markers = r.value]
        /\ IF r.exc # NoException
           THEN out' = Failed(r.exc) /\ pc' = "error"
           ELSE out' = Layout(m', df) /\ pc' = "done"
    /\ UNCHANGED <<clock, ver, cache, fetched, renders, cold, date, hour, viz_type,
                   uploaded_file, gdf, df, all_heat, h, log>>

(* Section 8, heatmap branch, then section 9 *)
VizHeatmap ==
    /\ pc = "viz" /\ viz_type = "heatmap"
    /\ LET r == heat_data(gdf, df) IN
        IF r.exc # NoException
        THEN m' = m /\ out' = Failed(r.exc) /\ pc' = "error"
        ELSE /\ m' = [m EXCEPT !.heat = <<r.value>>]
             /\ out' = Layout(m', df) /\ pc' = "done"
    /\ UNCHANGED <<clock, ver, cache, fetched, renders, cold, date, hour, viz_type,
                   uploaded_file, gdf, df, all_heat, h, log>>

(* Section 8, time-heatmap branch: one iteration of for h in range(24) *)
LoopStep(status, dur) ==
    /\ pc = "loop" /\ h < NumHours
    /\ clock + dur <= MaxClock
    /\ LET c == fetch_data(cache, clock, date_str, Fmt02d(h), status, dur)
           layer == heat_data(gdf, c.res.value)
       IN
        /\ cache' = c.cache
        /\ clock' = c.clock
        /\ fetched' = Fetched(fetched, date_str, Fmt02d(h), c)
        /\ log' = Append(log, CallRecord(date_str, Fmt02d(h), clock, c))
        /\ IF c.res.exc # NoException
           THEN out' = Failed(c.res.exc) /\ pc' = "error" /\ UNCHANGED <<all_heat, h>>
           ELSE IF layer.exc # NoException
           THEN out' = Failed(layer.exc) /\ pc' = "error" /\ UNCHANGED <<all_heat, h>>
           ELSE /\ all_heat' = Append(all_heat, layer.value)
                /\ h' = h + 1
                /\ UNCHANGED <<out, pc>>
    /\ UNCHANGED <<ver, renders, cold, date, hour, viz_type, uploaded_file, gdf, df, m>>

(* After the loop: HeatMapWithTime(...).add_to(m), then section 9 *)
LoopEnd ==
    /\ pc = "loop" /\ h = NumHours
    /\ m' = [m EXCEPT !.time = << HeatMapWithTime(all_heat) >>]
    /\ out' = Layout(m', df)
    /\ pc' = "done"
    /\ UNCHANGED <<clock, ver, cache, fetched, renders, cold, date, hour, viz_type,
                   uploaded_file, gdf, df, all_heat, h, log>>

(* Time passes between runs *)
Tick ==
    /\ MayRerun
    /\ clock + TickStep <= MaxClock
    /\ clock' = clock + TickStep
    /\ UNCHANGED <<ver, cache, fetched, renders, cold, pc, date, hour, viz_type,
                   uploaded_file, gdf, df, m, all_heat, h, out, log>>

(* The remote service switches between its two data sets between runs *)
ServerUpdate ==
    /\ MayRerun
    /\ ver' = 1 - ver
    /\ UNCHANGED <<clock, cache, fetched, renders, cold, pc, date, hour, viz_type,
                   uploaded_file, gdf, df, m, all_heat, h, out, log>>

Next ==
    \/ \E d \in Dates, hr \in SliderHours, vt \in VizTypes, file \in UploadedFiles :
           Rerun(d, hr, vt, file)
    \/ \E status \in Statuses, dur \in Durations : LoadData(status, dur)
    \/ VizPoints
    \/ VizHeatmap
    \/ \E status \in Statuses, dur \in Durations : LoopStep(status, dur)
    \/ LoopEnd
    \/ Tick
    \/ ServerUpdate

Spec == Init /\ [][Next]_vars

----------------------------------------------------------------------------
(* The points branch on its own: a frame of two records, of weights w and    *)
(* w + 1, for every w up to MaxWeight, joined to the boundary file FileB at  *)
(* the point where the visualization starts.                                 *)

TwoRecords(w) ==
    [columns |-> TableColumns,
     rows |-> << Row(<<2,0,2,5,0,9,0,5>>, <<1,4>>, T1, w),
                 Row(<<2,0,2,5,0,9,0,5>>, <<1,4>>, T2, w + 1) >>]

InitMarker ==
    /\ clock = 0 /\ ver = 0 /\ cache = EmptyCache /\ fetched = EmptyCache
    /\ renders = 1 /\ cold = TRUE
    /\ pc = "viz"
    /\ date = [y |-> 2025, m |-> 9, d |-> 5] /\ hour = 14
    /\ viz_type = "points" /\ uploaded_file = FileB
    /\ gdf = LoadBoundary(FileB)
    /\ \E w \in 0 .. MaxWeight : df = TwoRecords(w)
    /\ m = BaseMap(gdf)
    /\ all_heat = <<>> /\ h = 0 /\ out = Blank /\ log = <<>>

SpecMarker == InitMarker /\ [][VizPoints]_vars

----------------------------------------------------------------------------
(* Properties *)

Last(s) == s[Len(s)]

(* A fetch_data call is made in this step *)
Calls == Len(log') = Len(log) + 1

(* The key was fetched over the network less than 3600 s ago *)
Fresh(k) == fetched[k] # <<>> /\ clock < fetched[k][1].ts + 3600

RECURSIVE Requests(_)
Requests(l) == IF l = <<>> THEN 0 ELSE l[1].nreq + Requests(Tail(l))

Shown == out.map # <<>>

(* C1: a call for a key that was fetched successfully and whose entry has    *)
(* not expired returns the record set of that fetch and issues no request,   *)
(* whatever other keys were called in between.                               *)
C1_CachedCallIdentical ==
    [][\A k \in Keys :
          (Calls /\ Last(log').key = k /\ Fresh(k)) =>
              /\ Last(log').exc = NoException
              /\ Last(log').ret = fetched[k][1].value
              /\ Last(log').nreq = 0
              /\ cache' = cache]_vars

(* A call served from the cache at a later time than the fetch, inside the   *)
(* window, with requests for other keys in between.                          *)
C1_Witness ==
    /\ viz_type = "time_heatmap" /\ hour = 0 /\ Len(log) > 15
    /\ log[16].nreq = 0 /\ log[15].nreq = 1
    /\ log[16].at > fetched[log[16].key][1].ts
    /\ log[16].ret = fetched[log[16].key][1].value /\ log[16].ret.rows # <<>>

(* The frames the tract join has been applied to in the current run *)
JoinedFrames ==
    IF viz_type = "time_heatmap"
    THEN { log[i].ret : i \in { j \in DOMAIN log : j > 1 /\ log[j].exc = NoException } }
    ELSE IF pc \in {"done", "error"} /\ log # <<>> /\ log[1].exc = NoException
    THEN {df}
    ELSE {}

(* C2: a record with an allow-listed prefix and no boundary feature is       *)
(* dropped silently: the run does not enter an error state.                  *)
C2_UnmatchedDroppedSilently ==
    \A f \in JoinedFrames :
        Unjoinable(gdf, f) => (pc # "error" /\ out.exc = NoException)

(* C3: a success response without the envelope key, without the row key or   *)
(* with an empty row array gives an empty record set and no error.           *)
C3_EmptyEnvelopeIsEmptyResult ==
    \A i \in DOMAIN log :
        (log[i].nreq = 1 /\ log[i].status = 200
            /\ log[i].body \in {"no_envelope", "no_row", "empty_row"}) =>
        (log[i].exc = NoException /\ log[i].ret.rows = <<>>)

(* C4: a non-success status aborts the run: the failed call is the last call *)
(* of the run, the page shows the error and neither map, count nor table.    *)
C4_HttpFailureAborts ==
    \A i \in DOMAIN log :
        (log[i].nreq > 0 /\ log[i].status >= 400) =>
            /\ i = Len(log)
            /\ pc = "error"
            /\ out.exc = "HTTPError"
            /\ out.map = <<>> /\ out.count = <<>> /\ out.table = <<>>
            /\ m.time = <<>>

(* The call for an hour of the loop failed after frames had been collected *)
C4_Witness ==
    /\ viz_type = "time_heatmap" /\ pc = "error"
    /\ Len(log) > 5 /\ Last(log).status = 503 /\ Len(all_heat) = Len(log) - 2
    /\ \E i \in DOMAIN all_heat : all_heat[i] # <<>>

InAllowList(oa) ==
    /\ Len(oa) >= 7
    /\ SubSeq(oa, 1, 7) \in { <<1,1,0,4,0,6,5>>, <<1,1,0,4,0,6,6>>,
                              <<1,1,0,4,0,6,7>>, <<1,1,0,4,0,6,8>> }

KeptFeature(f) == InAllowList(f.OA_CD)

(* Coordinates of the features of the upload that are outside the allow-list *)
OutsideCentroids ==
    { <<Centroid(uploaded_file.features[i].geometry).y,
        Centroid(uploaded_file.features[i].geometry).x>> :
        i \in { j \in DOMAIN uploaded_file.features :
                    ~InAllowList(uploaded_file.features[j].OA_CD) } }

PointsOutside(layer) ==
    \E i \in DOMAIN layer : <<layer[i][1], layer[i][2]>> \in OutsideCentroids

(* C5: on a displayed map every tract of the outline layer, of a marker, of  *)
(* a heat point, of a frame and of the table has an allow-listed prefix, and *)
(* the outline layer holds every allow-listed feature of the upload.         *)
C5_OnlyAllowListedTracts ==
    Shown =>
        LET mp == out.map[1]
            kept == SelectSeq(uploaded_file.features, KeptFeature)
        IN  /\ mp.boundary = [i \in DOMAIN kept |-> kept[i].OA_CD]
            /\ \A i \in DOMAIN mp.boundary : InAllowList(mp.boundary[i])
            /\ \A i \in DOMAIN mp.markers : InAllowList(mp.markers[i].popup.OA_CD)
            /\ \A i \in DOMAIN mp.markers :
                   mp.markers[i].location \notin OutsideCentroids
            /\ \A i \in DOMAIN log :
                   \A j \in DOMAIN log[i].ret.rows : InAllowList(log[i].ret.rows[j].OA_CD)
            /\ \A i \in DOMAIN mp.heat :
                   Len(mp.heat[i]) = Len(df.rows) /\ ~PointsOutside(mp.heat[i])
            /\ \A i \in DOMAIN mp.time :
                   \A j \in DOMAIN mp.time[i].data :
                       /\ Len(mp.time[i].data[j]) = Len(log[j + 1].ret.rows)
                       /\ ~PointsOutside(mp.time[i].data[j])
            /\ \A i \in DOMAIN out.table :
                   \A j \in DOMAIN out.table[i] : InAllowList(out.table[i][j].OA_CD)

(* A displayed time heatmap over an upload with a feature outside the        *)
(* allow-list, with frames of hours whose rows were all outside it.          *)
C5_Witness ==
    /\ Shown /\ viz_type = "time_heatmap"
    /\ Len(out.map[1].boundary) < Len(uploaded_file.features)
    /\ out.map[1].time[1].data[2] = <<>>
    /\ out.map[1].time[1].data[1] # <<>>
    /\ out.table[1] # <<>>

(* The weights of a layer are the integer counts of the frame's rows *)
WeightsOf(frame) == [i \in DOMAIN frame.rows |-> StrToInt(frame.rows[i].TOT_LVPOP_CO)]

(* C6: a completed time heatmap has exactly 24 layers labelled "00".."23" in *)
(* ascending order, auto-play off, and layer h is the join of the result of  *)
(* the call fetch_data(date, hh) of that hour.                               *)
C6_TwentyFourLayers ==
    (pc = "done" /\ viz_type = "time_heatmap") =>
        LET t == out.map[1].time[1] IN
        /\ Len(t.data) = 24
        /\ t.index = [i \in 1 .. 24 |-> <<(i - 1) \div 10, (i - 1) % 10>>]
        /\ t.auto_play = FALSE
        /\ Len(log) = 25
        /\ \A i \in 1 .. 24 :
            /\ log[i + 1].key = <<date_str, t.index[i]>>
            /\ \A j \in DOMAIN log[i + 1].ret.rows :
                   log[i + 1].ret.rows[j].TMZON_PD_SE = t.index[i]
            /\ Len(t.data[i]) = Len(log[i + 1].ret.rows)
            /\ [j \in DOMAIN t.data[i] |-> t.data[i][j][3]] = WeightsOf(log[i + 1].ret)
            /\ t.data[i] = heat_data(gdf, log[i + 1].ret).value

(* A completed time heatmap with empty and non-empty layers whose layer of   *)
(* the selected hour differs from the layer before it.                       *)
C6_Witness ==
    /\ pc = "done" /\ viz_type = "time_heatmap" /\ hour = 14
    /\ out.map[1].time[1].data[15] # out.map[1].time[1].data[14]
    /\ out.map[1].time[1].data[15] # <<>>
    /\ out.map[1].time[1].data[2] = <<>>

(* C7: every fetched record whose tract is in the boundary set gives exactly *)
(* one joined point, in input order (stated for the heatmap branch).         *)
C7_EveryMatchedRecordJoined ==
    LET matched == { i \in DOMAIN df.rows : HasTract(gdf, df.rows[i]) } IN
    (viz_type = "heatmap" /\ pc \in {"done", "error"} /\ log # <<>>
        /\ log[1].exc = NoException /\ matched # {}) =>
        /\ m.heat # <<>>
        /\ Len(m.heat[1]) = Cardinality(matched)

RatLeq(a, b) == a.num * b.den <= b.num * a.den

(* C8: the radius of a marker of weight w is max(w / 50, 3): at least 3, 3   *)
(* up to 150, w / 50 from 150 on, non-decreasing in w; the label carries the *)
(* tract identifier and the raw weight.                                      *)
C8_MarkerRadius ==
    (pc = "done" /\ viz_type = "points") =>
        /\ Len(m.markers) = Len(df.rows)
        /\ \A i \in DOMAIN m.markers :
            LET w == StrToInt(df.rows[i].TOT_LVPOP_CO)
                r == m.markers[i].radius
            IN  /\ RatLeq(Rat(3, 1), r)
                /\ (w <= 150 => RatEq(r, Rat(3, 1)))
                /\ (w >= 150 => RatEq(r, Rat(w, 50)))
                /\ (w = 0 => RatEq(r, Rat(3, 1)))
                /\ (w = 500 => RatEq(r, Rat(10, 1)))
                /\ m.markers[i].popup.OA_CD = df.rows[i].OA_CD
                /\ m.markers[i].popup.TOT_LVPOP_CO = df.rows[i].TOT_LVPOP_CO
        /\ \A i, j \in DOMAIN m.markers :
               StrToInt(df.rows[i].TOT_LVPOP_CO) <= StrToInt(df.rows[j].TOT_LVPOP_CO)
                   => RatLeq(m.markers[i].radius, m.markers[j].radius)

(* Markers of weights 500 and 501: radius 10 and a larger one *)
C8_Witness ==
    /\ pc = "done" /\ viz_type = "points" /\ Len(m.markers) = 2
    /\ m.markers[1].popup.TOT_LVPOP_CO = <<5,0,0>>
    /\ RatEq(m.markers[1].radius, Rat(10, 1))
    /\ RatLess(m.markers[1].radius, m.markers[2].radius)

(* C9: without a boundary file the run warns and halts: no call is made, the *)
(* cache is not written, and no map, count or table is shown.                *)
C9_NoFileStops ==
    [][(renders' > 0 /\ ~uploaded_file'.present) =>
          /\ pc' = "stopped"
          /\ out'.warning
          /\ out'.map = <<>> /\ out'.count = <<>> /\ out'.table = <<>>
          /\ log' = <<>>
          /\ cache' = cache /\ fetched' = fetched]_vars

(* A run without a file, in the time-heatmap view, after a run that cached *)
C9_Witness ==
    /\ pc = "stopped" /\ ~uploaded_file.present /\ out.warning
    /\ viz_type = "time_heatmap" /\ hour = 23
    /\ cache # EmptyCache

(* The requests of a completed time-heatmap run that started cold *)
ColdLoopDone == pc = "done" /\ viz_type = "time_heatmap" /\ cold

(* C10 as stated: a time-heatmap run started with an empty cache issues      *)
(* exactly 24 requests.                                                      *)
C10_ColdLoopIs24 == ColdLoopDone => Requests(log) = 24

(* C10 as amended: a call issues one request when the key has no unexpired   *)
(* fetched result and none otherwise; a call that fails stores nothing; a    *)
(* completed time-heatmap run that started cold issues 24 requests when the  *)
(* entry of the selected hour is unexpired at its iteration, and 25 if not.  *)
C10_RequestsPerCall ==
    [][/\ \A k \in Keys :
             (Calls /\ Last(log').key = k) =>
                 /\ Last(log').nreq = IF Fresh(k) THEN 0 ELSE 1
                 /\ Requests(log') = Requests(log) + Last(log').nreq
                 /\ (Last(log').exc # NoException =>
                        cache' = cache /\ fetched' = fetched)
       /\ ColdLoopDone' =>
             /\ \A i \in 2 .. 25 : i # hour' + 2 => log'[i].nreq = 1
             /\ log'[1].nreq = 1
             /\ Requests(log') =
                    IF log'[hour' + 2].at < log'[1].done + 3600 THEN 24 ELSE 25]_vars

(* A cold time-heatmap run that completed with 24 requests, the selected     *)
(* hour's iteration served from the cache.                                   *)
C10_Witness ==
    /\ ColdLoopDone /\ hour = 14
    /\ Requests(log) = 24 /\ log[16].nreq = 0 /\ log[1].nreq = 1

====
